---- MODULE Spec2Model ----
(***************************************************************************)
(* Food-monitoring-System: three express services over a mongoose store.   *)
(*   FoodRegulatoryComplianceSystem.js  ("Compliance")                      *)
(*   QualityAssurance.js                ("Trust")                           *)
(*   FoodQualityAlerts.js               ("Quality", with socket.io emits)   *)
(* Each service is its own process with its own database; a behaviour of   *)
(* this module is a run of one of them (svc).  A request handler is an     *)
(* async function: it runs to its await (the store call), the store        *)
(* executes the call at some later moment, and the handler's continuation  *)
(* runs to its end without interruption (one JavaScript thread).           *)
(***************************************************************************)
EXTENDS Integers, Sequences, FiniteSets, TLC

\* ---------------------------------------------------------------- bounds
MaxReq == 2
MaxTicks == 1

\* ------------------------------------------------------------- constants
MsPerHour == 60 * 60 * 1000
MsPerSecond == 1000
NearExpiryHours == 24
\* the clock reading at which the run starts, and the step of the clock
T0 == 100 * MsPerHour
TickMs == MsPerHour \div 2

Services == {"Compliance", "Trust", "Quality"}
TraceIds == {"T1", "T4"}
\* the one record the store holds; no handler of the three services creates one
StoredTraceId == "T1"

requiredCertifications == <<"FDA Approved", "FSSAI Certified", "ISO 22000">>

\* --------------------------------------------------------- values (Date)
\* freshnessExpiryDate: Date.  A path the document does not hold reads as
\* undefined, a path stored as null reads as null.
DateOf(ms) == [tag |-> "date", ms |-> ms]
Undefined == [tag |-> "undefined", ms |-> 0]
Null == [tag |-> "null", ms |-> 0]

\* moment(x): the instant of a Date, the current time for undefined, an
\* invalid moment for null.
Moment(x, clock) ==
  CASE x.tag = "date" -> [valid |-> TRUE, ms |-> x.ms]
    [] x.tag = "undefined" -> [valid |-> TRUE, ms |-> clock]
    [] OTHER -> [valid |-> FALSE, ms |-> 0]

\* absFloor of moment: truncation toward zero
AbsFloor(n, d) == IF n >= 0 THEN n \div d ELSE 0 - ((0 - n) \div d)

\* a.diff(b, "hours"): NaN when either moment is invalid
DiffHours(a, b) ==
  IF a.valid /\ b.valid
    THEN [nan |-> FALSE, v |-> AbsFloor(a.ms - b.ms, MsPerHour)]
    ELSE [nan |-> TRUE, v |-> 0]

\* a.isBefore(b): false when either moment is invalid
IsBefore(a, b) == a.valid /\ b.valid /\ a.ms < b.ms

\* x < k in JavaScript: false for NaN
NumLess(x, k) == ~x.nan /\ x.v < k

\* moment().format('YYYY-MM-DD HH:mm:ss'): the clock to the second
FormatSeconds(clock) == clock \div MsPerSecond

\* ------------------------------------------------------- pure evaluators
\* array.includes(cert)
Includes(arr, cert) == \E i \in 1..Len(arr) : arr[i] = cert

RECURSIVE FilterMissing(_, _)
\* requiredCertifications.filter(cert => !certs.includes(cert)), order kept
FilterMissing(req, certs) ==
  IF req = <<>> THEN <<>>
  ELSE IF Includes(certs, Head(req))
    THEN FilterMissing(Tail(req), certs)
    ELSE <<Head(req)>> \o FilterMissing(Tail(req), certs)

MsgNoCertification == "Food item does not meet regulatory compliance standards."
MsgContamination == "Food item has a contamination risk, which violates food safety standards."
MsgComplies == "Food item complies with all regulatory standards."

\* a plausible slip: contamination tested before the certifications
checkRegulatoryComplianceRiskFirst(foodItem) ==
  IF foodItem.contaminationRisk THEN MsgContamination
  ELSE IF ~(\A i \in 1..Len(requiredCertifications) :
              Includes(foodItem.safetyCertifications, requiredCertifications[i]))
    THEN MsgNoCertification
    ELSE MsgComplies

checkRegulatoryCompliance(foodItem) ==
  LET hasRequiredCertifications ==
        \A i \in 1..Len(requiredCertifications) :
          Includes(foodItem.safetyCertifications, requiredCertifications[i])
  IN IF ~hasRequiredCertifications THEN MsgNoCertification
     ELSE IF foodItem.contaminationRisk THEN MsgContamination
     ELSE MsgComplies

\* alerts: the code pushes message strings; the kind stands for the fixed
\* text and the other fields for what the template interpolates
AlertExpired == [kind |-> "Expired", hours |-> 0, missing |-> <<>>]
AlertNearExpiry(h) == [kind |-> "NearExpiry", hours |-> h, missing |-> <<>>]
AlertContamination == [kind |-> "ContaminationRisk", hours |-> 0, missing |-> <<>>]
AlertMissing(m) == [kind |-> "MissingCertification", hours |-> 0, missing |-> m]

checkFoodTrustworthiness(foodItem, clock) ==
  LET currentTime == Moment(Undefined, clock)
      freshnessExpiry == Moment(foodItem.freshnessExpiryDate, clock)
      hoursUntilExpiry == DiffHours(freshnessExpiry, currentTime)
      expiry == IF NumLess(hoursUntilExpiry, 0) THEN <<AlertExpired>>
                ELSE IF NumLess(hoursUntilExpiry, NearExpiryHours)
                  THEN <<AlertNearExpiry(hoursUntilExpiry.v)>>
                  ELSE <<>>
      risk == IF foodItem.contaminationRisk THEN <<AlertContamination>> ELSE <<>>
  IN expiry \o risk

checkQualityIssues(foodItem, clock) ==
  LET risk == IF foodItem.contaminationRisk THEN <<AlertContamination>> ELSE <<>>
      currentDate == Moment(Undefined, clock)
      expiryDate == Moment(foodItem.freshnessExpiryDate, clock)
      expired == IF IsBefore(expiryDate, currentDate) THEN <<AlertExpired>> ELSE <<>>
      missingCertifications ==
        FilterMissing(requiredCertifications, foodItem.safetyCertifications)
      missing == IF Len(missingCertifications) > 0
                   THEN <<AlertMissing(missingCertifications)>> ELSE <<>>
  IN risk \o expired \o missing

\* ------------------------------------------------------------ the schema
\* FoodItemSchema of the three files: the common paths, complianceStatus in
\* the compliance service only, qualityIssue in the alert service only.
\* (qualityCheckDate is read by no handler and is left out.)
CommonPaths == {"foodItem", "origin", "freshnessExpiryDate", "safetyCertifications",
                "contaminationRisk", "traceId", "lastUpdated"}
SchemaPaths(service) ==
  CommonPaths \cup (IF service = "Compliance" THEN {"complianceStatus"} ELSE {})
              \cup (IF service = "Quality" THEN {"qualityIssue"} ELSE {})
AllPaths == CommonPaths \cup {"complianceStatus", "qualityIssue"}

\* a plausible slip: the update replaces the document (overwrite) instead of
\* setting the given paths, so paths the body does not name fall back to
\* their schema defaults
FindOneAndUpdateOverwrite(service, rec, updatedData, stamp) ==
  [p \in AllPaths |->
     IF p = "lastUpdated" THEN stamp
     ELSE IF p = "traceId" THEN rec[p]
     ELSE IF p \in DOMAIN updatedData /\ p \in SchemaPaths(service) THEN updatedData[p]
     ELSE IF p \in {"complianceStatus", "qualityIssue", "contaminationRisk"} THEN FALSE
     ELSE IF p = "safetyCertifications" THEN <<>>
     ELSE IF p = "freshnessExpiryDate" THEN Undefined
     ELSE ""]

\* findOneAndUpdate({traceId}, {...updatedData, lastUpdated: Date.now()},
\* {new: true}): mongoose sets ($set) the paths of the update that the schema
\* knows, in one atomic store operation; the spread puts the server's
\* lastUpdated after the client's, so the server's wins.
FindOneAndUpdateMerge(service, rec, updatedData, stamp) ==
  [p \in AllPaths |->
     IF p = "lastUpdated" THEN stamp
     ELSE IF p \in DOMAIN updatedData /\ p \in SchemaPaths(service) THEN updatedData[p]
     ELSE rec[p]]

\* the fields every success response copies from the document
RecordView(doc) ==
  [p \in CommonPaths |-> doc[p]]

\* ------------------------------------------------------------- responses
NoResponse ==
  [status |-> 0, error |-> "", record |-> <<>>, complianceStatus |-> "",
   carriesAlerts |-> FALSE, alerts |-> <<>>]
NotFoundResponse ==
  [NoResponse EXCEPT !.status = 404, !.error = "Food item not found."]
StoreErrorResponse(op) ==
  [NoResponse EXCEPT !.status = 500,
     !.error = IF op = "get" THEN "Failed to fetch food item data."
               ELSE "Failed to update food item data."]

\* a plausible slip: the compliance handler answers 200 whatever the check says
ComplianceResponseAlwaysOk(doc, status) ==
  [NoResponse EXCEPT !.status = 200, !.record = <<RecordView(doc)>>,
     !.complianceStatus = MsgComplies]

\* FoodRegulatoryComplianceSystem.js: 400 unless the check says "complies"
ComplianceResponse(doc, status) ==
  IF status # MsgComplies
    THEN [NoResponse EXCEPT !.status = 400,
            !.error = "Food item is not compliant with regulatory standards.",
            !.complianceStatus = status]
    ELSE [NoResponse EXCEPT !.status = 200, !.record = <<RecordView(doc)>>,
            !.complianceStatus = MsgComplies]

\* QualityAssurance.js: 400 when there is any alert
TrustResponse(doc, contaminationAlerts) ==
  IF Len(contaminationAlerts) > 0
    THEN [NoResponse EXCEPT !.status = 400,
            !.error = "Food item has quality concerns.",
            !.carriesAlerts = TRUE, !.alerts = contaminationAlerts]
    ELSE [NoResponse EXCEPT !.status = 200, !.record = <<RecordView(doc)>>]

\* FoodQualityAlerts.js: always 200, with the alerts
QualityResponse(doc, qualityAlerts) ==
  [NoResponse EXCEPT !.status = 200, !.record = <<RecordView(doc)>>,
     !.carriesAlerts = TRUE, !.alerts = qualityAlerts]

\* a plausible slip: notify only when more than one alert was found
ShouldNotifyOffByOne(qualityAlerts) == Len(qualityAlerts) > 1

\* if (qualityAlerts.length > 0) notifyQualityIssue(...)
ShouldNotify(qualityAlerts) == Len(qualityAlerts) > 0

\* the payload of io.emit('qualityAlert', ...)
notifyQualityIssue(foodItem, qualityAlerts, clock) ==
  [traceId |-> foodItem.traceId, alertMessage |-> qualityAlerts,
   foodItem |-> foodItem.foodItem, timestamp |-> FormatSeconds(clock)]

\* ------------------------------------------------------------------ state
VARIABLES
  svc,       \* which of the three services this process is
  store,     \* the document of StoredTraceId in the service's collection
  storeSeq,  \* number of operations the store has executed
  now,       \* the clock (milliseconds)
  ticks,     \* number of clock steps taken
  reqs,      \* the requests, by arrival order
  log        \* what went out, in order: socket emits and HTTP responses

vars == <<svc, store, storeSeq, now, ticks, reqs, log>>

ReqIds == 1..MaxReq

AllCertifications == requiredCertifications
InitialCertifications == {<<>>, <<"FDA Approved">>, AllCertifications}
InitialExpiry ==
  {Undefined, Null, DateOf(T0 - 2 * MsPerHour), DateOf(T0 - TickMs),
   DateOf(T0 + 5 * MsPerHour), DateOf(T0 + 48 * MsPerHour)}

\* the request bodies the model posts
BodyRisk == [contaminationRisk |-> TRUE]
BodyOrigin == [origin |-> "FarmX"]
BodyCerts == [safetyCertifications |-> AllCertifications, contaminationRisk |-> FALSE]
BodyDerived == [complianceStatus |-> TRUE, qualityIssue |-> TRUE, lastUpdated |-> 0]
Bodies == {BodyRisk, BodyOrigin, BodyCerts, BodyDerived}
EmptyBody == [p \in {} |-> 0]

IdleReq ==
  [pc |-> "idle", op |-> "", traceId |-> "", body |-> EmptyBody, stamp |-> 0,
   seen |-> 0, applied |-> 0, pre |-> <<>>, doc |-> <<>>, at |-> 0,
   status |-> "", alerts |-> <<>>, resp |-> NoResponse]

Init ==
  /\ svc \in Services
  /\ \E certs \in InitialCertifications, risk \in BOOLEAN, expiry \in InitialExpiry :
       store = [foodItem |-> "Milk", origin |-> "FarmA",
                freshnessExpiryDate |-> expiry, safetyCertifications |-> certs,
                contaminationRisk |-> risk, traceId |-> StoredTraceId,
                lastUpdated |-> T0 - MsPerHour,
                complianceStatus |-> FALSE, qualityIssue |-> FALSE]
  /\ storeSeq = 0
  /\ now = T0
  /\ ticks = 0
  /\ reqs = [r \in ReqIds |-> IdleReq]
  /\ log = <<>>

\* ---------------------------------------------------------------- actions
\* the clock advances
Tick ==
  /\ ticks < MaxTicks
  /\ now' = now + TickMs
  /\ ticks' = ticks + 1
  /\ UNCHANGED <<svc, store, storeSeq, reqs, log>>

Arrives(r) == reqs[r].pc = "idle" /\ \A q \in ReqIds : q < r => reqs[q].pc # "idle"

\* app.get: the handler runs to `await FoodItem.findOne({traceId})`
GetStart(r, traceId) ==
  /\ Arrives(r)
  /\ reqs' = [reqs EXCEPT ![r] = [@ EXCEPT !.pc = "sent", !.op = "get",
                                     !.traceId = traceId, !.seen = storeSeq]]
  /\ UNCHANGED <<svc, store, storeSeq, now, ticks, log>>

\* app.post: the handler reads Date.now() and runs to
\* `await FoodItem.findOneAndUpdate(...)`
PostStart(r, traceId, updatedData) ==
  /\ Arrives(r)
  /\ reqs' = [reqs EXCEPT ![r] = [@ EXCEPT !.pc = "sent", !.op = "post",
                                     !.traceId = traceId, !.body = updatedData,
                                     !.stamp = now, !.seen = storeSeq]]
  /\ UNCHANGED <<svc, store, storeSeq, now, ticks, log>>

\* the store executes findOne
FindOne(r) ==
  /\ reqs[r].pc = "sent" /\ reqs[r].op = "get"
  /\ storeSeq' = storeSeq + 1
  /\ reqs' = [reqs EXCEPT ![r] =
       [@ EXCEPT !.pc = "fetched", !.applied = storeSeq + 1,
                 !.doc = IF reqs[r].traceId = StoredTraceId THEN <<store>> ELSE <<>>]]
  /\ UNCHANGED <<svc, store, now, ticks, log>>

\* the store executes findOneAndUpdate
FindOneAndUpdate(r) ==
  /\ reqs[r].pc = "sent" /\ reqs[r].op = "post"
  /\ storeSeq' = storeSeq + 1
  /\ IF reqs[r].traceId = StoredTraceId
       THEN /\ store' = FindOneAndUpdateMerge(svc, store, reqs[r].body, reqs[r].stamp)
            /\ reqs' = [reqs EXCEPT ![r] =
                 [@ EXCEPT !.pc = "fetched", !.applied = storeSeq + 1,
                           !.pre = <<store>>, !.doc = <<store'>>]]
       ELSE /\ store' = store
            /\ reqs' = [reqs EXCEPT ![r] =
                 [@ EXCEPT !.pc = "fetched", !.applied = storeSeq + 1]]
  /\ UNCHANGED <<svc, now, ticks, log>>

\* the store call rejects; the catch block answers 500
StoreError(r) ==
  /\ reqs[r].pc = "sent"
  /\ reqs' = [reqs EXCEPT ![r] =
       [@ EXCEPT !.pc = "done", !.resp = StoreErrorResponse(reqs[r].op)]]
  /\ log' = Append(log, [type |-> "respond", req |-> r, event |-> <<>>])
  /\ UNCHANGED <<svc, store, storeSeq, now, ticks>>

\* the continuation when the store found no document: 404
NotFound(r) ==
  /\ reqs[r].pc = "fetched" /\ reqs[r].doc = <<>>
  /\ reqs' = [reqs EXCEPT ![r] = [@ EXCEPT !.pc = "done", !.resp = NotFoundResponse]]
  /\ log' = Append(log, [type |-> "respond", req |-> r, event |-> <<>>])
  /\ UNCHANGED <<svc, store, storeSeq, now, ticks>>

\* the continuation of both handlers of FoodRegulatoryComplianceSystem.js
ComplianceResume(r) ==
  /\ svc = "Compliance"
  /\ reqs[r].pc = "fetched" /\ reqs[r].doc # <<>>
  /\ LET foodItem == reqs[r].doc[1]
         complianceStatus == checkRegulatoryCompliance(foodItem)
     IN reqs' = [reqs EXCEPT ![r] =
          [@ EXCEPT !.pc = "done", !.at = now, !.status = complianceStatus,
                    !.resp = ComplianceResponse(foodItem, complianceStatus)]]
  /\ log' = Append(log, [type |-> "respond", req |-> r, event |-> <<>>])
  /\ UNCHANGED <<svc, store, storeSeq, now, ticks>>

\* the continuation of both handlers of QualityAssurance.js
TrustResume(r) ==
  /\ svc = "Trust"
  /\ reqs[r].pc = "fetched" /\ reqs[r].doc # <<>>
  /\ LET foodItem == reqs[r].doc[1]
         contaminationAlerts == checkFoodTrustworthiness(foodItem, now)
     IN reqs' = [reqs EXCEPT ![r] =
          [@ EXCEPT !.pc = "done", !.at = now, !.alerts = contaminationAlerts,
                    !.resp = TrustResponse(foodItem, contaminationAlerts)]]
  /\ log' = Append(log, [type |-> "respond", req |-> r, event |-> <<>>])
  /\ UNCHANGED <<svc, store, storeSeq, now, ticks>>

\* the continuation of both handlers of FoodQualityAlerts.js: evaluate,
\* emit when there are alerts, then respond
QualityResume(r) ==
  /\ svc = "Quality"
  /\ reqs[r].pc = "fetched" /\ reqs[r].doc # <<>>
  /\ LET foodItem == reqs[r].doc[1]
         qualityAlerts == checkQualityIssues(foodItem, now)
         emitted == IF ShouldNotify(qualityAlerts)
                      THEN <<[type |-> "emit", req |-> r,
                              event |-> <<notifyQualityIssue(foodItem, qualityAlerts, now)>>]>>
                      ELSE <<>>
     IN /\ reqs' = [reqs EXCEPT ![r] =
             [@ EXCEPT !.pc = "done", !.at = now, !.alerts = qualityAlerts,
                       !.resp = QualityResponse(foodItem, qualityAlerts)]]
        /\ log' = log \o emitted \o <<[type |-> "respond", req |-> r, event |-> <<>>]>>
  /\ UNCHANGED <<svc, store, storeSeq, now, ticks>>

Next ==
  \/ Tick
  \/ \E r \in ReqIds, t \in TraceIds : GetStart(r, t)
  \/ \E r \in ReqIds, b \in Bodies : PostStart(r, StoredTraceId, b)
  \/ \E r \in ReqIds : PostStart(r, "T4", BodyOrigin)
  \/ \E r \in ReqIds : FindOne(r)
  \/ \E r \in ReqIds : FindOneAndUpdate(r)
  \/ \E r \in ReqIds : StoreError(r)
  \/ \E r \in ReqIds : NotFound(r)
  \/ \E r \in ReqIds : ComplianceResume(r)
  \/ \E r \in ReqIds : TrustResume(r)
  \/ \E r \in ReqIds : QualityResume(r)

Spec == Init /\ [][Next]_vars

\* ------------------------------------------------------- reading a state
Done(r) == reqs[r].pc = "done"
\* the store answered with a document and the handler evaluated it
Evaluated(r) == Done(r) /\ reqs[r].doc # <<>>
\* the update of r was executed by the store on an existing document
Applied(r) == reqs[r].op = "post" /\ reqs[r].pre # <<>>
Emits(r) == {i \in 1..Len(log) : log[i].type = "emit" /\ log[i].req = r}
Responds(r) == {i \in 1..Len(log) : log[i].type = "respond" /\ log[i].req = r}
\* the paths an update body sets, lastUpdated apart
Effective(r) == (DOMAIN reqs[r].body \cap SchemaPaths(svc)) \ {"lastUpdated"}
\* each of the two calls was started before the store executed the other's
Concurrent(r1, r2) ==
  reqs[r1].seen < reqs[r2].applied /\ reqs[r2].seen < reqs[r1].applied
MissingOf(doc) == FilterMissing(requiredCertifications, doc.safetyCertifications)
\* the reasons a compliance answer carries: its one status string, or none
ComplianceReasons(status) == IF status = MsgComplies THEN <<>> ELSE <<status>>
Kinds(alerts) == {alerts[i].kind : i \in 1..Len(alerts)}

C2_NoLostUpdate ==
  \A r1, r2 \in ReqIds :
    ( /\ r1 # r2 /\ Done(r1) /\ Done(r2) /\ Applied(r1) /\ Applied(r2)
      /\ Concurrent(r1, r2)
      /\ Effective(r1) \cap Effective(r2) = {}
      /\ \A r3 \in ReqIds \ {r1, r2} :
           reqs[r3].op = "post" /\ reqs[r3].pc # "idle" =>
             Effective(r3) \cap (Effective(r1) \cup Effective(r2)) = {} )
    => /\ \A p \in Effective(r1) : store[p] = reqs[r1].body[p]
       /\ \A p \in Effective(r2) : store[p] = reqs[r2].body[p]

\* C2 witness: update A sets contaminationRisk, concurrent update B sets
\* origin, both completed.
C2_Witness ==
  \E r1, r2 \in ReqIds :
    /\ r1 # r2 /\ Done(r1) /\ Done(r2) /\ Applied(r1) /\ Applied(r2)
    /\ Concurrent(r1, r2)
    /\ reqs[r1].body = BodyRisk /\ reqs[r2].body = BodyOrigin
    /\ reqs[r2].applied < reqs[r1].applied
    /\ ~reqs[r2].pre[1].contaminationRisk /\ reqs[r2].pre[1].origin = "FarmA"

\* C3 (as stated): for two calls on one traceId, events and responses go out
\* in the order in which the store executed the calls: when the store
\* executed the call r1 and then the update r2, nothing of r1 (computed from
\* the older record state) goes out after anything of r2.
C3_OutputInStoreOrder ==
  \A r1, r2 \in ReqIds :
    ( /\ Evaluated(r1) /\ Evaluated(r2) /\ Applied(r2)
      /\ reqs[r1].traceId = reqs[r2].traceId
      /\ reqs[r1].applied < reqs[r2].applied )
    => \A i \in Emits(r1) \cup Responds(r1), j \in Emits(r2) \cup Responds(r2) : i < j

\* C4 (as stated): after an update whose body names a derived field, the
\* stored derived field is the value the evaluator computes from the merged
\* record, not the client's value.
C4_DerivedFieldsRecomputed ==
  \A r \in ReqIds : (Evaluated(r) /\ Applied(r)) =>
    LET doc == reqs[r].doc[1]
    IN /\ (svc = "Compliance" /\ "complianceStatus" \in DOMAIN reqs[r].body) =>
            (doc.complianceStatus <=> checkRegulatoryCompliance(doc) = MsgComplies)
       /\ (svc = "Quality" /\ "qualityIssue" \in DOMAIN reqs[r].body) =>
            (doc.qualityIssue <=> checkQualityIssues(doc, reqs[r].at) # <<>>)

\* C5: in the alert service a call on an existing record emits one AlertEvent
\* for the traceId exactly when its quality alerts are non-empty, and the
\* emit precedes the call's response; no other call emits anything.
C5_EmitIffAlerts ==
  \A r \in ReqIds :
    /\ ~Done(r) => Emits(r) = {} /\ Responds(r) = {}
    /\ Done(r) =>
         /\ Cardinality(Responds(r)) = 1
         /\ IF svc = "Quality" /\ reqs[r].doc # <<>>
               /\ checkQualityIssues(reqs[r].doc[1], reqs[r].at) # <<>>
              THEN /\ Cardinality(Emits(r)) = 1
                   /\ \A i \in Emits(r) :
                        /\ \A j \in Responds(r) : i < j
                        /\ log[i].event[1].traceId = reqs[r].traceId
                        /\ log[i].event[1].alertMessage = reqs[r].resp.alerts
              ELSE Emits(r) = {}

\* C5 witness: an update in the alert service answered with alerts, its
\* event emitted just before its response.
C5_Witness ==
  \E r \in ReqIds :
    /\ svc = "Quality" /\ Evaluated(r) /\ reqs[r].op = "post"
    /\ reqs[r].resp.alerts # <<>>
    /\ \E i \in Emits(r) : log[i + 1].type = "respond" /\ log[i + 1].req = r

\* C6 (as stated): an update that ends in an error leaves the stored record
\* as it was before the call and has published no AlertEvent.
C6_AllOrNothing ==
  \A r \in ReqIds :
    (Done(r) /\ reqs[r].op = "post" /\ reqs[r].resp.status # 200) =>
      /\ reqs[r].pre = <<>> \/ reqs[r].pre = reqs[r].doc
      /\ Emits(r) = {}

C8_PriorInstantIsExpired ==
  \A r \in ReqIds :
    ( /\ svc = "Trust" /\ Evaluated(r)
      /\ reqs[r].doc[1].freshnessExpiryDate.tag = "date"
      /\ reqs[r].doc[1].freshnessExpiryDate.ms < reqs[r].at )
    => "Expired" \in Kinds(reqs[r].alerts) /\ "NearExpiry" \notin Kinds(reqs[r].alerts)

\* C9 (as stated): a record without freshnessExpiryDate makes the
\* trustworthiness check fail: the call ends in an error that carries no
\* alert sequence, and no expiry or near-expiry finding is made.
C9_AbsentExpiryIsValidationError ==
  \A r \in ReqIds :
    ( /\ svc = "Trust" /\ Evaluated(r)
      /\ reqs[r].doc[1].freshnessExpiryDate.tag = "undefined" )
    => /\ reqs[r].resp.status # 200 /\ ~reqs[r].resp.carriesAlerts
       /\ Kinds(reqs[r].alerts) \cap {"Expired", "NearExpiry"} = {}

\* C10 (as stated): the stored lastUpdated after each accepted update is
\* strictly greater than before it.
C10_LastUpdatedStrictlyAdvances ==
  \A r \in ReqIds : Applied(r) =>
    reqs[r].doc[1].lastUpdated > reqs[r].pre[1].lastUpdated

====
